---- MODULE Spec2Model ----
(***************************************************************************)
(* Model of flask_backend/app.py: the /detect, /chat, /mood-history,       *)
(* /chat-history and /health handlers over the three SQLite tables         *)
(* mood_history, chat_history and suggestions.                             *)
(*                                                                         *)
(* Requests are served by the threads of Threads (app.run of the Flask     *)
(* development server is threaded), so a handler that blocks in an LLM     *)
(* call is a state of its own and other handlers run meanwhile.  Each      *)
(* handler opens its own connection; SQLite gives one connection at a time *)
(* the write lock, from the first INSERT of a transaction to its commit,   *)
(* and other connections read the committed rows only.                     *)
(*                                                                         *)
(* Texts that the code strips (the LLM's chat reply) are sequences of      *)
(* tokens, a token being a word or a run of white space, so that strip()   *)
(* is computed.  Confidences are in thousandths, rounded ones in           *)
(* hundredths.                                                             *)
(***************************************************************************)
EXTENDS Integers, Sequences, FiniteSets, TLC

VARIABLES
    mood_history,   \* committed rows of table mood_history
    chat_history,   \* committed rows of table chat_history
    suggestions,    \* committed rows of table suggestions
    model,          \* TRUE iff GEMINI_API_KEY was set (model is not None)
    clock,          \* CURRENT_TIMESTAMP, in seconds
    lock,           \* the thread whose connection holds SQLite's write lock
    pc,             \* per thread: "idle", "detect_llm" or "chat_llm"
    req,            \* per thread: the locals of the handler in flight
    resp,           \* the response the last step sent (NoResp if it sent none)
    nreq,           \* number of POST requests received so far
    okDetect,       \* per session: number of /detect requests answered 200
    okChat          \* per session: number of /chat requests answered 200

vars == <<mood_history, chat_history, suggestions, model, clock, lock, pc, req,
          resp, nreq, okDetect, okChat>>

tables == <<mood_history, chat_history, suggestions>>

----------------------------------------------------------------------------
(* Bounds and input domains *)

MaxRequests == 2
MaxClock == 1

Threads == {"t1", "t2"}
\* a request is served by the first thread that is free
Rank == [t1 |-> 1, t2 |-> 2]
NoThread == "none"
None == "None"

Sessions == {"default", "s1"}

\* images a client may post, by what the decoder and the classifier make of them
UndecodableImages == {"garbage"}
FacelessImages == {"blank"}
FaceImages == {"face_sad", "face_bored"}
Images == UndecodableImages \cup FacelessImages \cup FaceImages

\* what the FER classifier reports for the first face of an image
Classifier == [face_sad |-> [emotion |-> "sad", confidence |-> 874],
               face_bored |-> [emotion |-> "bored", confidence |-> 612]]

WS == " "
UserMessages == {<<"hello">>}
Limits == {-1, 0, 1, 2}

\* bodies of POST /detect: JSON objects with optional keys image, session_id
DetectBodies ==
    {[k \in {"session_id"} |-> "s1"]}
    \cup {[k \in {"image"} |-> i] : i \in Images \ {"face_bored"}}
    \cup {[k \in {"image", "session_id"} |-> IF k = "image" THEN i ELSE "s1"] :
             i \in {"face_bored"}}

\* bodies of POST /chat: JSON objects with optional keys message, mood, session_id
ChatBodies ==
    {[k \in {"mood"} |-> "sad"]}
    \cup {[k \in {"message"} |-> m] : m \in UserMessages}
    \cup {[k \in {"message", "mood", "session_id"} |->
              IF k = "message" THEN m ELSE IF k = "mood" THEN "sad" ELSE "s1"] :
             m \in UserMessages}

\* query strings of GET /mood-history: optional session_id and limit
MoodArgs ==
    {<<>>}
    \cup {[k \in {"limit"} |-> l] : l \in Limits}
    \cup {[k \in {"session_id", "limit"} |-> IF k = "limit" THEN l ELSE "s1"] :
             l \in {-1, 1}}

\* query strings of GET /chat-history: optional session_id and limit
ChatArgs ==
    {<<>>, [k \in {"session_id"} |-> "s1"], [k \in {"limit"} |-> -1],
     [k \in {"session_id", "limit"} |-> IF k = "limit" THEN 1 ELSE "s1"]}

\* query strings that ask for the first entry of a session
PageArgs ==
    {[k \in {"limit"} |-> 1],
     [k \in {"session_id", "limit"} |-> IF k = "limit" THEN 1 ELSE "s1"]}

\* outcomes of model.generate_content(prompt) in get_chat_response
ChatLLM ==
    {[raises |-> TRUE, text |-> <<>>],
     [raises |-> FALSE, text |-> <<WS, "I hear you.", WS>>],
     [raises |-> FALSE, text |-> <<WS, WS>>]}

\* outcomes of model.generate_content(prompt) in get_therapeutic_suggestion:
\* the text is the serialisation of a JSON value, or it is no JSON at all
SuggestionLLM ==
    {[raises |-> TRUE, json |-> FALSE, value |-> <<>>],
     [raises |-> FALSE, json |-> FALSE, value |-> <<>>],
     [raises |-> FALSE, json |-> TRUE,
      value |-> [message |-> "Breathe.", tip |-> "Rest.", activity |-> "Walk."]],
     [raises |-> FALSE, json |-> TRUE, value |-> [tip |-> "Rest."]]}

NoLLM == [raises |-> FALSE, json |-> FALSE, value |-> <<>>, text |-> <<>>]

----------------------------------------------------------------------------
(* Helpers *)

\* dict.get(key, default)
Get(d, key, default) == IF key \in DOMAIN d THEN d[key] ELSE default

Min(a, b) == IF a < b THEN a ELSE b

RECURSIVE LStrip(_)
LStrip(t) == IF t # <<>> /\ Head(t) = WS THEN LStrip(Tail(t)) ELSE t

RECURSIVE RStrip(_)
RStrip(t) ==
    IF t # <<>> /\ t[Len(t)] = WS THEN RStrip(SubSeq(t, 1, Len(t) - 1)) ELSE t

\* str.strip()
Strip(t) == RStrip(LStrip(t))

\* round(confidence, 2): thousandths to hundredths
Round2(c) == (c + 5) \div 10

----------------------------------------------------------------------------
(* The pure functions of app.py *)

\* decode_base64_image: the decoded image, or None when any step raises
decode_base64_image(base64_string) ==
    IF base64_string \in UndecodableImages THEN None ELSE base64_string

\* detect_emotion: dominant emotion and confidence of the first face, or
\* (None, 0.0) when the classifier finds no face
detect_emotion(image) ==
    IF image \in DOMAIN Classifier
    THEN <<Classifier[image].emotion, Classifier[image].confidence>>
    ELSE <<None, 0>>

fallback_suggestions ==
    [happy |->
       [message |-> "Your positive energy is wonderful! Embrace this joyful moment and let it fill you with warmth.",
        tip |-> "Share your happiness with others - positive emotions are contagious in the best way.",
        activity |-> "Try dancing to your favorite song or call someone you care about.",
        sound |-> "uplifting nature sounds"],
     sad |->
       [message |-> "It's completely okay to feel this way. Your emotions are valid, and you're not alone in this.",
        tip |-> "Allow yourself to feel without judgment. Sadness is a natural part of the human experience.",
        activity |-> "Try gentle stretching, journaling, or listening to comforting music.",
        sound |-> "gentle rain"],
     angry |->
       [message |-> "Your feelings are valid. Let's channel this energy in a healthy, constructive way.",
        tip |-> "Physical movement can help release tension. Take deep breaths and count to ten.",
        activity |-> "Try a brief walk outside, some deep breathing, or write down your thoughts.",
        sound |-> "flowing stream"],
     fear |->
       [message |-> "You're braver than you feel right now. Fear is temporary, but your strength is lasting.",
        tip |-> "Ground yourself by focusing on what you can control in this moment.",
        activity |-> "Practice the 5-4-3-2-1 grounding technique: 5 things you see, 4 you hear, 3 you feel, 2 you smell, 1 you taste.",
        sound |-> "peaceful forest"],
     surprise |->
       [message |-> "Life is full of unexpected moments. You're handling this surprise with grace.",
        tip |-> "Take a moment to process this new information. Surprises can lead to growth.",
        activity |-> "Take a few mindful breaths and reflect on how you're feeling right now.",
        sound |-> "gentle wind chimes"],
     disgust |->
       [message |-> "Your boundaries and values are important. It's okay to feel this way about things that don't align with you.",
        tip |-> "Distance yourself from what's bothering you if possible, and focus on what brings you peace.",
        activity |-> "Engage in something that brings you joy or comfort - perhaps a hobby or time in nature.",
        sound |-> "mountain breeze"],
     neutral |->
       [message |-> "A balanced state is a gift. You're centered and ready for whatever comes your way.",
        tip |-> "This is a perfect time for planning, reflection, or trying something new.",
        activity |-> "Consider setting a small, achievable goal for today or practicing gratitude.",
        sound |-> "ambient peace"]]

\* the dict returned when response.text is not JSON (or reading it raises)
generic_suggestion ==
    [message |-> "You're doing great by acknowledging your feelings. Every emotion is valid and temporary.",
     tip |-> "Take slow, deep breaths and remind yourself that this feeling will pass.",
     activity |-> "Try a short mindfulness exercise or gentle movement.",
     sound |-> "calming nature sounds"]

\* a plausible variant: unparseable output falls through to the table
get_therapeutic_suggestion_fallthrough(emotion, llm) ==
    IF model /\ ~llm.raises /\ llm.json
    THEN llm.value
    ELSE Get(fallback_suggestions, emotion, fallback_suggestions["neutral"])

\* get_therapeutic_suggestion(emotion), llm being what generate_content does
get_therapeutic_suggestion(emotion, llm) ==
    IF model /\ ~llm.raises
    THEN IF llm.json THEN llm.value ELSE generic_suggestion
    ELSE Get(fallback_suggestions, emotion, fallback_suggestions["neutral"])

chat_unconfigured ==
    <<"I'm here to listen and support you. Sometimes it helps just to know someone cares about you.">>

chat_failed ==
    <<"I'm here for you. Your feelings are valid, and it's okay to take things one step at a time.">>

\* get_chat_response(message, mood, chat_history), llm being what
\* generate_content does; the prompt built from message, mood and the last
\* five turns of chat_history goes to the LLM and nowhere else
get_chat_response(message, mood, llm) ==
    IF ~model THEN chat_unconfigured
    ELSE IF llm.raises THEN chat_failed
    ELSE Strip(llm.text)

----------------------------------------------------------------------------
(* Storage *)

\* committing a connection's inserted rows appends them to the table
Commit_replace(table, rows) == IF rows = <<>> THEN table ELSE rows

Commit(table, rows) == table \o rows

\* INSERT INTO mood_history ... ; conn.commit()
MoodInsert_uncommitted(emotion, confidence, session_id) == <<>>

MoodInsert(emotion, confidence, session_id) ==
    <<[id |-> Len(mood_history) + 1, emotion |-> emotion,
       confidence |-> confidence, timestamp |-> clock,
       session_id |-> session_id]>>

\* INSERT INTO suggestions ... ; conn.commit()
SuggestionInsert(emotion, suggestion) ==
    <<[id |-> Len(suggestions) + 1, emotion |-> emotion,
       message |-> suggestion["message"], tip |-> suggestion["tip"],
       activity |-> Get(suggestion, "activity", ""),
       sound |-> Get(suggestion, "sound", ""), timestamp |-> clock]>>

\* INSERT INTO chat_history ... on the handler's open connection
ChatInsert(id, message, sender, mood, session_id) ==
    [id |-> id, message |-> message, sender |-> sender, mood |-> mood,
     timestamp |-> clock, session_id |-> session_id]

\* a plausible variant: conn.commit() right after the first INSERT
AfterUserInsert_commit(t, row) ==
    [committed |-> <<row>>, pending |-> <<>>, lock |-> NoThread]

\* the connection after the user turn's INSERT: no commit before the LLM call,
\* so the row is pending and the connection keeps the write lock
AfterUserInsert(t, row) ==
    [committed |-> <<>>, pending |-> <<row>>, lock |-> t]

\* a plausible variant: the second INSERT stores the user's message again
TherapistTurn_echo(r, ai_response) ==
    ChatInsert(Len(chat_history) + Len(r.pending) + 1, r.message, "therapist",
               r.mood, r.session_id)

\* the therapist turn's INSERT
TherapistTurn(r, ai_response) ==
    ChatInsert(Len(chat_history) + Len(r.pending) + 1, ai_response, "therapist",
               r.mood, r.session_id)

\* rows of a table for one session
OfSession(table, s) == SelectSeq(table, LAMBDA r : r.session_id = s)

\* the orders in which ORDER BY timestamp may return rows: any permutation
\* that is monotone in timestamp (rows of equal timestamp come in any order)
RECURSIVE Orders(_, _, _)
Orders(rows, left, desc) ==
    IF left = {} THEN {<<>>}
    ELSE LET first == {i \in left : \A j \in left :
                         IF desc THEN rows[i].timestamp >= rows[j].timestamp
                                 ELSE rows[i].timestamp <= rows[j].timestamp}
         IN UNION {{<<rows[i]>> \o q : q \in Orders(rows, left \ {i}, desc)} :
                     i \in first}

Ordered(rows, desc) == Orders(rows, 1..Len(rows), desc)

\* LIMIT ?: a negative limit is no limit
Limit(rows, limit) ==
    IF limit < 0 THEN rows ELSE SubSeq(rows, 1, Min(limit, Len(rows)))

\* a plausible variant: ORDER BY timestamp ASC
MoodQuery_asc(session_id, limit) ==
    {Limit(q, limit) : q \in Ordered(OfSession(mood_history, session_id), FALSE)}

\* SELECT ... FROM mood_history WHERE session_id = ? ORDER BY timestamp DESC LIMIT ?
MoodQuery(session_id, limit) ==
    {Limit(q, limit) : q \in Ordered(OfSession(mood_history, session_id), TRUE)}

\* SELECT ... FROM chat_history WHERE session_id = ? ORDER BY timestamp ASC LIMIT ?
ChatQuery(session_id, limit) ==
    {Limit(q, limit) : q \in Ordered(OfSession(chat_history, session_id), FALSE)}

DefaultMoodLimit == 50
DefaultChatLimit == 100

----------------------------------------------------------------------------
(* State machine *)

NoResp == [op |-> "none", status |-> 0]

Init ==
    /\ mood_history = <<>>
    /\ chat_history = <<>>
    /\ suggestions = <<>>
    /\ model \in BOOLEAN
    /\ clock = 0
    /\ lock = NoThread
    /\ pc = [t \in Threads |-> "idle"]
    /\ req = [t \in Threads |-> <<>>]
    /\ resp = NoResp
    /\ nreq = 0
    /\ okDetect = [s \in Sessions |-> 0]
    /\ okChat = [s \in Sessions |-> 0]

\* a thread takes the next request: the first thread that is free
Accept(t) ==
    /\ pc[t] = "idle"
    /\ \A u \in Threads : Rank[u] < Rank[t] => pc[u] # "idle"

\* ... a GET request; a read is not repeated back to back, since it leaves the
\* state as it is and the second read can only return what the first could
AcceptGet(t) ==
    /\ Accept(t)
    /\ resp.op \notin {"mood-history", "chat-history", "health"}

\* ... a POST request
AcceptPost(t) ==
    /\ Accept(t)
    /\ nreq < MaxRequests
    /\ nreq' = nreq + 1

\* jsonify({'error': msg}), status
Error(op, data, status, msg) ==
    [op |-> op, status |-> status, request |-> data,
     body |-> [error |-> msg]]

\* a plausible variant: the check of the classifier's result is missing
DetectReject_anyFace(data) ==
    IF data = <<>> \/ "image" \notin DOMAIN data THEN "No image provided"
    ELSE IF decode_base64_image(data["image"]) = None THEN "Invalid image format"
    ELSE None

\* the validation of detect_mood: the 400 error it answers, or None
DetectReject(data) ==
    IF data = <<>> \/ "image" \notin DOMAIN data THEN "No image provided"
    ELSE IF decode_base64_image(data["image"]) = None THEN "Invalid image format"
    ELSE IF detect_emotion(decode_base64_image(data["image"]))[1] = None
         THEN "No face detected"
    ELSE None

\* detect_mood up to the LLM call: validate, classify, store the observation
DetectBegin(t, data) ==
    /\ AcceptPost(t)
    /\ LET reject == DetectReject(data)
        found == detect_emotion(decode_base64_image(data["image"]))
        session_id == Get(data, "session_id", "default")
       IN IF reject # None
          THEN /\ resp' = Error("detect", data, 400, reject)
               /\ UNCHANGED <<mood_history, pc, req>>
          ELSE IF lock # NoThread
          THEN \* the write lock is not released within the busy timeout:
               \* sqlite3.OperationalError, caught at the handler boundary
               /\ resp' = Error("detect", data, 500, "Internal server error")
               /\ UNCHANGED <<mood_history, pc, req>>
          ELSE /\ mood_history' =
                    Commit(mood_history, MoodInsert(found[1], found[2], session_id))
               /\ pc' = [pc EXCEPT ![t] = "detect_llm"]
               /\ req' = [req EXCEPT ![t] =
                            [data |-> data, emotion |-> found[1],
                             confidence |-> found[2], session_id |-> session_id]]
               /\ resp' = NoResp
    /\ UNCHANGED <<chat_history, suggestions, model, clock, lock, okDetect, okChat>>

\* detect_mood from the LLM call on: get the suggestion, store it, answer
DetectFinish(t, llm) ==
    /\ pc[t] = "detect_llm"
    /\ llm \in (IF model THEN SuggestionLLM ELSE {NoLLM})
    /\ LET r == req[t]
           suggestion == get_therapeutic_suggestion(r.emotion, llm)
       IN IF "message" \notin DOMAIN suggestion \/ "tip" \notin DOMAIN suggestion
             THEN \* KeyError, caught at the handler boundary
                  /\ resp' = Error("detect", r.data, 500, "Internal server error")
                  /\ UNCHANGED <<suggestions, okDetect>>
             ELSE IF lock # NoThread
             THEN /\ resp' = Error("detect", r.data, 500, "Internal server error")
                  /\ UNCHANGED <<suggestions, okDetect>>
             ELSE /\ suggestions' =
                       Commit(suggestions, SuggestionInsert(r.emotion, suggestion))
                  /\ resp' = [op |-> "detect", status |-> 200,
                              request |-> r.data, llm |-> llm,
                              suggestion |-> suggestion,
                              body |-> [emotion |-> r.emotion,
                                        confidence |-> Round2(r.confidence),
                                        message |-> suggestion["message"],
                                        tip |-> suggestion["tip"],
                                        activity |-> Get(suggestion, "activity", ""),
                                        sound |-> Get(suggestion, "sound", "")]]
                  /\ okDetect' = [okDetect EXCEPT ![r.session_id] = @ + 1]
    /\ pc' = [pc EXCEPT ![t] = "idle"]
    /\ req' = [req EXCEPT ![t] = <<>>]
    /\ UNCHANGED <<mood_history, chat_history, model, clock, lock, nreq, okChat>>

\* chat up to the LLM call: validate, insert the user turn
ChatBegin(t, data) ==
    /\ AcceptPost(t)
    /\ LET mood == Get(data, "mood", None)
           session_id == Get(data, "session_id", "default")
       IN IF data = <<>> \/ "message" \notin DOMAIN data
          THEN /\ resp' = Error("chat", data, 400, "No message provided")
               /\ UNCHANGED <<chat_history, lock, pc, req>>
          ELSE IF lock # NoThread
          THEN /\ resp' = Error("chat", data, 500, "Internal server error")
               /\ UNCHANGED <<chat_history, lock, pc, req>>
          ELSE LET row == ChatInsert(Len(chat_history) + 1, data["message"], "user",
                                     mood, session_id)
                   conn == AfterUserInsert(t, row)
               IN /\ chat_history' = Commit(chat_history, conn.committed)
                  /\ lock' = conn.lock
                  /\ pc' = [pc EXCEPT ![t] = "chat_llm"]
                  /\ req' = [req EXCEPT ![t] =
                               [data |-> data, message |-> data["message"],
                                mood |-> mood, session_id |-> session_id,
                                pending |-> conn.pending]]
                  /\ resp' = NoResp
    /\ UNCHANGED <<mood_history, suggestions, model, clock, okDetect, okChat>>

\* chat from the LLM call on: get the reply, insert it, commit, answer
ChatFinish(t, llm) ==
    /\ pc[t] = "chat_llm"
    /\ llm \in (IF model THEN ChatLLM ELSE {NoLLM})
    /\ LET r == req[t]
           ai_response == get_chat_response(r.message, r.mood, llm)
           turn == TherapistTurn(r, ai_response)
       IN IF lock \notin {t, NoThread}
          THEN \* the second INSERT cannot take the write lock
               /\ resp' = Error("chat", r.data, 500, "Internal server error")
               /\ UNCHANGED <<chat_history, lock, okChat>>
          ELSE /\ chat_history' = Commit(chat_history, r.pending \o <<turn>>)
               /\ lock' = NoThread
               /\ resp' = [op |-> "chat", status |-> 200,
                           request |-> r.data, llm |-> llm,
                           body |-> [response |-> ai_response, timestamp |-> clock]]
               /\ okChat' = [okChat EXCEPT ![r.session_id] = @ + 1]
    /\ pc' = [pc EXCEPT ![t] = "idle"]
    /\ req' = [req EXCEPT ![t] = <<>>]
    /\ UNCHANGED <<mood_history, suggestions, model, clock, nreq, okDetect>>

\* the chat handlers that wait for the LLM, per session
InFlightChats(s) ==
    Cardinality({t \in Threads : pc[t] = "chat_llm" /\ req[t].session_id = s})

\* get_mood_history
GetMoodHistory(t, args) ==
    /\ AcceptGet(t)
    /\ LET session_id == Get(args, "session_id", "default")
           limit == Get(args, "limit", DefaultMoodLimit)
       IN \E rows \in MoodQuery(session_id, limit) :
            resp' = [op |-> "mood-history", status |-> 200,
                     request |-> args, session_id |-> session_id, limit |-> limit,
                     rows |-> rows, detected |-> okDetect[session_id],
                     body |-> [history |->
                        [i \in 1..Len(rows) |->
                           [emotion |-> rows[i].emotion,
                            confidence |-> rows[i].confidence,
                            timestamp |-> rows[i].timestamp]]]]
    /\ UNCHANGED <<mood_history, chat_history, suggestions, model, clock, lock, pc,
                   req, nreq, okDetect, okChat>>

\* get_chat_history
GetChatHistory(t, args) ==
    /\ AcceptGet(t)
    /\ LET session_id == Get(args, "session_id", "default")
           limit == Get(args, "limit", DefaultChatLimit)
       IN \E rows \in ChatQuery(session_id, limit) :
            resp' = [op |-> "chat-history", status |-> 200,
                     request |-> args, session_id |-> session_id, limit |-> limit,
                     rows |-> rows, chatted |-> okChat[session_id],
                     inflight |-> InFlightChats(session_id),
                     body |-> [history |->
                        [i \in 1..Len(rows) |->
                           [message |-> rows[i].message,
                            sender |-> rows[i].sender,
                            mood |-> rows[i].mood,
                            timestamp |-> rows[i].timestamp]]]]
    /\ UNCHANGED <<mood_history, chat_history, suggestions, model, clock, lock, pc,
                   req, nreq, okDetect, okChat>>

\* health_check
HealthCheck(t) ==
    /\ AcceptGet(t)
    /\ resp' = [op |-> "health", status |-> 200,
                body |-> [status |-> "healthy", timestamp |-> clock,
                          gemini_configured |-> model]]
    /\ UNCHANGED <<mood_history, chat_history, suggestions, model, clock, lock, pc,
                   req, nreq, okDetect, okChat>>

\* a second passes
Tick ==
    /\ clock < MaxClock
    /\ clock' = clock + 1
    /\ resp' = NoResp
    /\ UNCHANGED <<mood_history, chat_history, suggestions, model, lock, pc, req,
                   nreq, okDetect, okChat>>

Detect ==
    \/ \E t \in Threads, data \in DetectBodies : DetectBegin(t, data)
    \/ \E t \in Threads, llm \in SuggestionLLM \cup {NoLLM} : DetectFinish(t, llm)

Chat ==
    \/ \E t \in Threads, data \in ChatBodies : ChatBegin(t, data)
    \/ \E t \in Threads, llm \in ChatLLM \cup {NoLLM} : ChatFinish(t, llm)

MoodHistory == \E t \in Threads, args \in MoodArgs : GetMoodHistory(t, args)

ChatHistory == \E t \in Threads, args \in ChatArgs : GetChatHistory(t, args)

Health == \E t \in Threads : HealthCheck(t)

\* clients of all five routes, who read the histories one entry at a time
MoodPage == \E t \in Threads, args \in PageArgs : GetMoodHistory(t, args)

ChatPage == \E t \in Threads, args \in PageArgs : GetChatHistory(t, args)

Next == Detect \/ Chat \/ MoodPage \/ ChatPage \/ Health \/ Tick

Spec == Init /\ [][Next]_vars

\* clients of /detect and /mood-history only
NextDetect == Detect \/ MoodHistory \/ Tick

SpecDetect == Init /\ [][NextDetect]_vars

\* clients of /chat and /chat-history only
NextChat == Chat \/ ChatHistory \/ Tick

SpecChat == Init /\ [][NextChat]_vars

----------------------------------------------------------------------------
(* Properties *)

IsPrefix(a, b) == Len(a) <= Len(b) /\ SubSeq(b, 1, Len(a)) = a

Count(rows, P(_)) == Len(SelectSeq(rows, P))

InFlight(label) == Cardinality({t \in Threads : pc[t] = label})

Successes == okDetect["default"] + okDetect["s1"]

\* the table entry the spec names for an emotion
TableEntry(emotion) ==
    IF emotion \in {"happy", "sad", "angry", "fear", "surprise", "disgust", "neutral"}
    THEN fallback_suggestions[emotion]
    ELSE fallback_suggestions["neutral"]

Suggested(body) ==
    [message |-> body.message, tip |-> body.tip, activity |-> body.activity,
     sound |-> body.sound]

NonIncreasing(rows) ==
    \A i, j \in 1..Len(rows) : i < j => rows[i].timestamp >= rows[j].timestamp

MostRecentFirst(rows) ==
    \A i, j \in 1..Len(rows) : i < j => rows[i].id > rows[j].id

\* a /mood-history response for a session with limit = the number of its
\* successful detections
ReadAfterN == resp.op = "mood-history" /\ resp.limit = resp.detected

\* C1 as stated: after N detections of session S, /mood-history with limit N
\* returns exactly N entries, in descending timestamp order, the most recent
\* detection first.
C1_Original ==
    ReadAfterN =>
       /\ Len(resp.body.history) = resp.limit
       /\ NonIncreasing(resp.body.history)
       /\ MostRecentFirst(resp.rows)

\* C1 amended: after N successful detections of session S, /mood-history with
\* limit N returns exactly N entries of S whose timestamps never increase;
\* detections of the same second come in any order.
C1_Amended ==
    ReadAfterN =>
       /\ Len(resp.body.history) = resp.limit
       /\ NonIncreasing(resp.body.history)
       /\ \A i \in 1..Len(resp.rows) : resp.rows[i].session_id = resp.session_id

C1_Witness ==
    /\ ReadAfterN
    /\ resp.limit = 2
    /\ Len(resp.rows) = 2
    /\ resp.rows[1].timestamp > resp.rows[2].timestamp

\* C2 as stated: with no /detect in flight, the mood observation rows and the
\* suggestion rows are each as many as the /detect requests answered 200.
C2_Claim ==
    InFlight("detect_llm") = 0 =>
       /\ Len(mood_history) = Successes
       /\ Len(suggestions) = Successes

\* C3 as stated, for a /chat request that no other request delays: a /chat
\* request with a message is answered 200 with a non-empty response, whatever
\* the LLM does.
C3_Claim ==
    (resp.op = "chat" /\ "message" \in DOMAIN resp.request /\ lock = NoThread) =>
       /\ resp.status = 200
       /\ resp.body.response # <<>>

UserRows(rows, s) ==
    Count(rows, LAMBDA r : r.session_id = s /\ r.sender = "user")

TherapistRows(rows, s) ==
    Count(rows, LAMBDA r : r.session_id = s /\ r.sender = "therapist")

ChatAddsTwo ==
    LET data == resp'.request
        n == Len(chat_history)
        turn(i) == chat_history'[n + i]
    IN resp'.op = "chat" =>
         IF resp'.status = 200
         THEN /\ Len(chat_history') = n + 2
              /\ SubSeq(chat_history', 1, n) = chat_history
              /\ turn(1).sender = "user"
              /\ turn(1).message = data["message"]
              /\ turn(2).sender = "therapist"
              /\ turn(2).message = resp'.body.response
              /\ \A i \in {1, 2} :
                   /\ turn(i).session_id =
                        (IF "session_id" \in DOMAIN data THEN data["session_id"]
                         ELSE "default")
                   /\ turn(i).mood =
                        (IF "mood" \in DOMAIN data THEN data["mood"] ELSE None)
         ELSE chat_history' = chat_history

\* C4: a /chat call answered 200 adds exactly two rows, the user's message and
\* the returned response, with the call's session and mood; a /chat call
\* answered with an error adds none; so each session always has as many user
\* rows as therapist rows.
C4_TwoRowsPerChat ==
    /\ [][ChatAddsTwo]_vars
    /\ [](\A s \in Sessions : UserRows(chat_history, s) = TherapistRows(chat_history, s))

C4_Witness ==
    /\ resp.op = "chat"
    /\ resp.status = 200
    /\ resp.request = [k \in {"message", "mood", "session_id"} |->
                         IF k = "message" THEN <<"hello">>
                         ELSE IF k = "mood" THEN "sad" ELSE "s1"]
    /\ resp.body.response = <<"I hear you.">>
    /\ Len(chat_history) = 4

Answered == resp.op = "detect" /\ resp.status = 200

Rejected(data) ==
    \/ "image" \notin DOMAIN data
    \/ data["image"] \in UndecodableImages
    \/ data["image"] \in FacelessImages

\* C6: a /detect request with no image key, with an image that cannot be
\* decoded, or with an image that shows no face is answered 400 with an error
\* field, and no table changes.
C6_InvalidDetect ==
    [][(resp'.op = "detect" /\ Rejected(resp'.request)) =>
          /\ resp'.status = 400
          /\ "error" \in DOMAIN resp'.body
          /\ UNCHANGED tables]_vars

C6_Witness ==
    /\ resp.op = "detect"
    /\ resp.status = 400
    /\ resp.body.error = "No face detected"
    /\ Len(mood_history) > 0

\* C7 as stated: the history routes return rows of the session asked for only,
\* and at most as many as the limit (none for a limit below 0).
C7_Claim ==
    resp.op \in {"mood-history", "chat-history"} =>
       /\ \A i \in 1..Len(resp.rows) : resp.rows[i].session_id = resp.session_id
       /\ Len(resp.body.history) <= (IF resp.limit < 0 THEN 0 ELSE resp.limit)

\* C8: the three tables only grow, every committed row staying as it is, and
\* the three GET routes leave them unchanged.
C8_AppendOnly ==
    [][/\ IsPrefix(mood_history, mood_history')
       /\ IsPrefix(chat_history, chat_history')
       /\ IsPrefix(suggestions, suggestions')
       /\ resp'.op \in {"mood-history", "chat-history", "health"} =>
            UNCHANGED tables]_vars

C8_Witness ==
    /\ resp.op = "chat-history"
    /\ Len(resp.rows) > 0
    /\ Len(mood_history) > 0
    /\ Len(suggestions) > 0

\* a /chat-history response for a whole session
WholeSession == resp.op = "chat-history" /\ "limit" \notin DOMAIN resp.request

\* C9 as stated: /chat-history, served during the LLM call of a /chat request of
\* the session, returns that request's user turn, and /chat holds no write lock
\* during the LLM call.
C9_Original ==
    /\ WholeSession =>
          UserRows(resp.rows, resp.session_id) = resp.chatted + resp.inflight
    /\ \A t \in Threads : pc[t] = "chat_llm" => lock # t

\* C9 amended: /chat inserts the user turn before the LLM call but commits it
\* with the therapist turn, in one transaction: /chat-history, served during the
\* LLM call, does not return the user turn, /chat holds the write lock during
\* the LLM call, and a /chat answered 500 is one that met the lock.
C9_Amended ==
    /\ WholeSession => UserRows(resp.rows, resp.session_id) = resp.chatted
    /\ \A t \in Threads : pc[t] = "chat_llm" =>
          /\ lock = t
          /\ Len(req[t].pending) = 1
          /\ req[t].pending[1].sender = "user"
          /\ req[t].pending[1].id = Len(chat_history) + 1
    /\ (resp.op = "chat" /\ resp.status = 500) => lock # NoThread

C9_Witness ==
    /\ WholeSession
    /\ resp.inflight = 1
    /\ resp.chatted = 1
    /\ Len(resp.rows) = 2

\* C10: there are never more suggestion rows than mood observation rows; a
\* /detect request that waits for the LLM has committed its observation and not
\* yet its suggestion.
C10_SuggestionsFollow ==
    Len(suggestions) + InFlight("detect_llm") <= Len(mood_history)

C10_Witness ==
    /\ InFlight("detect_llm") = 1
    /\ Len(suggestions) = 1
    /\ Len(mood_history) = 2

====
